---- MODULE Spec2Model ----
(***************************************************************************)
(* POSIX path manipulation (src/src/path.ts).  A path string is modelled   *)
(* as a sequence of one-character strings, so that splitting, joining and  *)
(* the regular-expression split are computed character by character.       *)
(***************************************************************************)
EXTENDS Integers, Sequences, FiniteSets, TLC

\* ------------------------------------------------------------------ bounds
\* longest path string given to the one-argument operations
MaxLen == 6
\* longest from / to given to relative
MaxPairLen == 4
\* longest a / b / c given to join
MaxTripleLen == 2
\* longest segment array given directly to normalizeArray
MaxParts == 4
\* longest argument list given to resolve
MaxArgs == 3

\* the characters path strings are built from: the separator, the dot and a
\* name character
Chars == {"/", ".", "a"}

Paths(n) == UNION {[1..k -> Chars] : k \in 0..n}

\* ------------------------------------------------- JavaScript string helpers
sep == <<"/">>

\* s.charAt(0) === '/'
isAbsolute(path) == Len(path) > 0 /\ path[1] = "/"

\* s.substr(-1) === '/'
EndsWithSlash(path) == Len(path) > 0 /\ path[Len(path)] = "/"

\* s.substring(1)
Substring1(s) == SubSeq(s, 2, Len(s))

\* s.split('/'): always at least one element, empty strings kept
RECURSIVE Split(_)
Split(s) ==
  IF \A k \in 1..Len(s) : s[k] # "/" THEN <<s>>
  ELSE LET k == CHOOSE j \in 1..Len(s) :
                  s[j] = "/" /\ \A h \in 1..(j - 1) : s[h] # "/"
       IN <<SubSeq(s, 1, k - 1)>> \o Split(SubSeq(s, k + 1, Len(s)))

\* arr.join('/')
RECURSIVE JoinSlash(_)
JoinSlash(arr) ==
  IF Len(arr) = 0 THEN <<>>
  ELSE IF Len(arr) = 1 THEN arr[1]
  ELSE arr[1] \o sep \o JoinSlash(Tail(arr))

\* ------------------------------------------------------------ normalizeArray
\* the loop body without the test for an empty part
normalizeArrayStepKeepEmpty(acc, p, above) ==
  IF p = <<".">> THEN acc
  ELSE IF p = <<".", ".">> THEN
         IF Len(acc) > 0 /\ acc[Len(acc)] # <<".", ".">>
           THEN SubSeq(acc, 1, Len(acc) - 1)
         ELSE IF above THEN Append(acc, <<".", ".">>)
         ELSE acc
  ELSE Append(acc, p)

\* the loop body pushing ".." whatever allowAboveRoot is
normalizeArrayStepAlwaysAbove(acc, p, above) ==
  IF p = <<>> \/ p = <<".">> THEN acc
  ELSE IF p = <<".", ".">> THEN
         IF Len(acc) > 0 /\ acc[Len(acc)] # <<".", ".">>
           THEN SubSeq(acc, 1, Len(acc) - 1)
         ELSE Append(acc, <<".", ".">>)
  ELSE Append(acc, p)

\* one iteration of the loop body: the accumulator after segment p
normalizeArrayStep(acc, p, above) ==
  IF p = <<>> \/ p = <<".">> THEN acc
  ELSE IF p = <<".", ".">> THEN
         IF Len(acc) > 0 /\ acc[Len(acc)] # <<".", ".">>
           THEN SubSeq(acc, 1, Len(acc) - 1)
         ELSE IF above THEN Append(acc, <<".", ".">>)
         ELSE acc
  ELSE Append(acc, p)

RECURSIVE normalizeArrayFrom(_, _, _)
normalizeArrayFrom(rest, acc, above) ==
  IF rest = <<>> THEN acc
  ELSE normalizeArrayFrom(Tail(rest),
                          normalizeArrayStep(acc, Head(rest), above),
                          above)

normalizeArray(segments, above) == normalizeArrayFrom(segments, <<>>, above)

\* ----------------------------------------------------------------- normalize
\* the statements of normalize after the segments were normalized and joined
normalizeFinish(path, joined) ==
  LET absolute == isAbsolute(path)
      trailingSlash == EndsWithSlash(path)
      p2 == IF joined = <<>> /\ ~absolute THEN <<".">> ELSE joined
      p3 == IF p2 # <<>> /\ trailingSlash THEN p2 \o <<"/">> ELSE p2
  IN (IF absolute THEN <<"/">> ELSE <<>>) \o p3

normalize(path) ==
  normalizeFinish(path,
                  JoinSlash(normalizeArray(Split(path), ~isAbsolute(path))))

\* ------------------------------------------------- values and the environment
\* a JavaScript value handed to the API: a string, or something that is not
Str(s) == [type |-> "string", str |-> s]
NotAString == [type |-> "number", str |-> <<>>]

\* a type test that accepts every value
isStringAnyValue(x) == TRUE

\* typeof x === 'string'
isString(x) == x.type = "string"

\* the host's `process`: undefined, or an object whose cwd() returns a string
ProcessUndefined == [defined |-> FALSE, cwd |-> <<>>]
ProcessWithCwd(dir) == [defined |-> TRUE, cwd |-> dir]

getCwd(proc) == IF proc.defined THEN proc.cwd ELSE <<"/">>

\* ------------------------------------------------------------ posixSplitPath
AllIn(s, lo, hi, set) == \A k \in lo..hi : s[k] \in set
NoneIn(s, lo, hi, set) == \A k \in lo..hi : s[k] \notin set

\* the fourth group with [^\/]* in place of [^.\/]*
ExtGroupMatchesAnyDots(e) ==
  Len(e) = 0 \/ (e[1] = "." /\ NoneIn(e, 2, Len(e), {"/"}))

\* (\.[^.\/]*|) : the fourth group, empty or a dot followed by neither dot nor slash
ExtGroupMatches(e) ==
  Len(e) = 0 \/ (e[1] = "." /\ NoneIn(e, 2, Len(e), {".", "/"}))

\* (?:\.{1,2}|[^\/]+?|) : the three alternatives in front of the fourth group
CoreGroupMatches(alt, c) ==
  \/ alt = 1 /\ Len(c) \in {1, 2} /\ AllIn(c, 1, Len(c), {"."})
  \/ alt = 2 /\ Len(c) >= 1 /\ NoneIn(c, 1, Len(c), {"/"})
  \/ alt = 3 /\ Len(c) = 0

\* a way to cut filename into root, dir, core, ext and trailing slashes that
\* the pattern accepts
SplitMatches(filename) ==
  LET n == Len(filename) IN
  {m \in [r : 0..1, d : 0..n, alt : 1..3, c : 0..n, e : 0..n] :
     /\ m.r + m.d + m.c + m.e <= n
     /\ (m.r = 1 => filename[1] = "/")
     /\ CoreGroupMatches(m.alt, SubSeq(filename, m.r + m.d + 1, m.r + m.d + m.c))
     /\ ExtGroupMatches(SubSeq(filename, m.r + m.d + m.c + 1,
                               m.r + m.d + m.c + m.e))
     /\ AllIn(filename, m.r + m.d + m.c + m.e + 1, n, {"/"})}

\* the order in which the backtracking matcher tries the cuts: the optional
\* slash first, the lazy dir from short to long, \.{1,2} greedy before the lazy
\* [^\/]+? before the empty alternative, the extension greedy before empty
SplitRank(m, n) ==
  LET r1 == 1 - m.r
      r2 == m.d
      r3 == IF m.alt = 1 THEN 2 - m.c
            ELSE IF m.alt = 2 THEN 1 + m.c
            ELSE n + 2
      r4 == IF m.e > 0 THEN n - m.e ELSE n + 1
  IN ((r1 * (n + 1) + r2) * (n + 3) + r3) * (n + 2) + r4

\* splitPathRe.exec(filename).slice(1): <<root, dir, basename, ext>>
posixSplitPath(filename) ==
  LET n == Len(filename)
      ms == SplitMatches(filename)
      m == CHOOSE x \in ms : \A y \in ms : SplitRank(x, n) <= SplitRank(y, n)
  IN << SubSeq(filename, 1, m.r),
        SubSeq(filename, m.r + 1, m.r + m.d),
        SubSeq(filename, m.r + m.d + 1, m.r + m.d + m.c + m.e),
        SubSeq(filename, m.r + m.d + m.c + 1, m.r + m.d + m.c + m.e) >>

extname(path) == posixSplitPath(path)[4]

\* parse of a string argument (a string always yields four groups)
parse(pathString) ==
  LET allParts == posixSplitPath(pathString) IN
  [ root |-> allParts[1],
    dir  |-> allParts[1] \o SubSeq(allParts[2], 1, Len(allParts[2]) - 1),
    base |-> allParts[3],
    ext  |-> allParts[4],
    name |-> SubSeq(allParts[3], 1, Len(allParts[3]) - Len(allParts[4])) ]

\* format of a Path record whose root is a string: root is checked, not used
format(pathObject) ==
  LET dir == IF pathObject.dir # <<>> THEN pathObject.dir \o sep ELSE <<>>
      base == pathObject.base
  IN dir \o base

\* ---------------------------------------------------------------------- join
\* the accumulation putting a separator in front of the first segment too
RECURSIVE joinLoopAlwaysSep(_, _)
joinLoopAlwaysSep(list, path) ==
  IF list = <<>> THEN [threw |-> FALSE, value |-> path]
  ELSE LET segment == Head(list) IN
       IF ~isString(segment) THEN [threw |-> TRUE, value |-> <<>>]
       ELSE IF segment.str = <<>> THEN joinLoopAlwaysSep(Tail(list), path)
       ELSE joinLoopAlwaysSep(Tail(list), path \o sep \o segment.str)

\* the path accumulated from the arguments left to right
RECURSIVE joinLoop(_, _)
joinLoop(list, path) ==
  IF list = <<>> THEN [threw |-> FALSE, value |-> path]
  ELSE LET segment == Head(list) IN
       IF ~isString(segment) THEN [threw |-> TRUE, value |-> <<>>]
       ELSE IF segment.str = <<>> THEN joinLoop(Tail(list), path)
       ELSE IF path = <<>> THEN joinLoop(Tail(list), path \o segment.str)
       ELSE joinLoop(Tail(list), path \o sep \o segment.str)

join(list) ==
  LET acc == joinLoop(list, <<>>) IN
  IF acc.threw THEN acc ELSE [threw |-> FALSE, value |-> normalize(acc.value)]

\* ------------------------------------------------------------------- resolve
\* the loop condition without the test of resolvedAbsolute
resolveContinuesPastAbsolute(k, abs) == k >= -1

\* the loop condition: i >= -1 && !resolvedAbsolute
resolveContinues(k, abs) == k >= -1 /\ ~abs

\* the value examined at index k: an argument, or the working directory
resolveOperand(list, proc, k) ==
  IF k >= 0 THEN list[k + 1] ELSE Str(getCwd(proc))

\* the statements after the loop; a string sum is never null or undefined,
\* so the right side of ?? is not taken
resolveFinish(acc, abs) ==
  LET normalized == JoinSlash(normalizeArray(Split(acc), ~abs))
  IN (IF abs THEN <<"/">> ELSE <<>>) \o normalized

RECURSIVE resolveLoop(_, _, _, _, _)
resolveLoop(list, proc, k, acc, abs) ==
  IF ~resolveContinues(k, abs)
    THEN [threw |-> FALSE, value |-> resolveFinish(acc, abs)]
  ELSE LET path == resolveOperand(list, proc, k) IN
       IF ~isString(path) THEN [threw |-> TRUE, value |-> <<>>]
       ELSE IF path.str = <<>> THEN resolveLoop(list, proc, k - 1, acc, abs)
       ELSE resolveLoop(list, proc, k - 1, path.str \o <<"/">> \o acc,
                        isAbsolute(path.str))

resolve(list, proc) == resolveLoop(list, proc, Len(list) - 1, <<>>, FALSE)

\* ------------------------------------------------------------------ relative
trim(arr) ==
  LET nonEmpty == {k \in 1..Len(arr) : arr[k] # <<>>} IN
  IF nonEmpty = {} THEN <<>>
  ELSE LET start == CHOOSE k \in nonEmpty : \A j \in nonEmpty : k <= j
           end == CHOOSE k \in nonEmpty : \A j \in nonEmpty : k >= j
       IN SubSeq(arr, start, end)

Min(x, y) == IF x <= y THEN x ELSE y

\* the common prefix never shortened by the comparison
samePartsLengthNoCompare(fromParts, toParts) ==
  Min(Len(fromParts), Len(toParts))

\* no common prefix found at all
samePartsLengthZero(fromParts, toParts) == 0

\* number of leading positions at which the two arrays agree
samePartsLength(fromParts, toParts) ==
  LET length == Min(Len(fromParts), Len(toParts))
      differ == {k \in 1..length : fromParts[k] # toParts[k]}
  IN IF differ = {} THEN length
     ELSE (CHOOSE k \in differ : \A j \in differ : k <= j) - 1

relative(from, to, proc) ==
  LET from1 == Substring1(resolve(<<Str(from)>>, proc).value)
      to1 == Substring1(resolve(<<Str(to)>>, proc).value)
      fromParts == trim(Split(from1))
      toParts == trim(Split(to1))
      same == samePartsLength(fromParts, toParts)
      ups == [k \in 1..(Len(fromParts) - same) |-> <<".", ".">>]
  IN JoinSlash(ups \o SubSeq(toParts, same + 1, Len(toParts)))

\* =================================================================== state
VARIABLES
  process,          \* the host's process object, read by getCwd
  \* a call of normalizeArray, made directly or by normalize
  caller, input, parts, allowAboveRoot, res, idx, pcN, output,
  \* normalize applied again to its own result
  current, original, calls,
  \* parse, format and extname of one string
  filename, pcS, parsed, formatted, ext,
  \* one call of resolve
  args, i, resolvedPath, resolvedAbsolute, pcR, cwdReads, examined, result,
  \* relative, and following its result from `from`
  relFrom, relTo, rel, joined, landed, pcRel,
  \* the three ways to join a, b, c
  segA, segB, segC, pair, nested, flat, concat, pcJ

arrVars == <<caller, input, parts, allowAboveRoot, res, idx, pcN, output>>
normVars == <<current, original, calls>>
splitVars == <<filename, pcS, parsed, formatted, ext>>
resolveVars ==
  <<args, i, resolvedPath, resolvedAbsolute, pcR, cwdReads, examined, result>>
relVars == <<relFrom, relTo, rel, joined, landed, pcRel>>
joinVars == <<segA, segB, segC, pair, nested, flat, concat, pcJ>>
vars ==
  <<process, arrVars, normVars, splitVars, resolveVars, relVars, joinVars>>

EmptyPath == [root |-> <<>>, dir |-> <<>>, base |-> <<>>, ext |-> <<>>,
              name |-> <<>>]

\* no call of the group in progress
IdleArr ==
  /\ caller = "none" /\ input = <<>> /\ parts = <<>> /\ allowAboveRoot = FALSE
  /\ res = <<>> /\ idx = 1 /\ pcN = "idle" /\ output = <<>>
IdleNorm == current = <<>> /\ original = <<>> /\ calls = 0
IdleSplit ==
  /\ filename = <<>> /\ pcS = "idle" /\ parsed = EmptyPath
  /\ formatted = <<>> /\ ext = <<>>
IdleResolve ==
  /\ args = <<>> /\ i = 0 /\ resolvedPath = <<>> /\ resolvedAbsolute = FALSE
  /\ pcR = "idle" /\ cwdReads = 0 /\ examined = <<>> /\ result = <<>>
IdleRel ==
  /\ relFrom = <<>> /\ relTo = <<>> /\ rel = <<>> /\ joined = <<>>
  /\ landed = <<>> /\ pcRel = "idle"
IdleJoin ==
  /\ segA = <<>> /\ segB = <<>> /\ segC = <<>> /\ pair = <<>> /\ nested = <<>>
  /\ flat = <<>> /\ concat = <<>> /\ pcJ = "idle"

\* ============================================ normalizeArray, step by step
\* the segments handed to normalizeArray directly
Segments == {<<>>, <<".">>, <<".", ".">>, <<"a">>}
SegmentArrays == UNION {[1..k -> Segments] : k \in 0..MaxParts}

InitArr ==
  /\ process = ProcessUndefined
  /\ \/ /\ caller = "direct"
        /\ input = <<>>
        /\ parts \in SegmentArrays
        /\ allowAboveRoot \in BOOLEAN
        /\ pcN = "loop"
     \/ /\ caller = "normalize"
        /\ input \in Paths(MaxLen)
        /\ parts = <<>>
        /\ allowAboveRoot = FALSE
        /\ pcN = "enter"
  /\ res = <<>> /\ idx = 1 /\ output = <<>>
  /\ IdleNorm /\ IdleSplit /\ IdleResolve /\ IdleRel /\ IdleJoin

\* normalize: isAbsolute, split, call normalizeArray
NormalizeEnter ==
  /\ pcN = "enter"
  /\ parts' = Split(input)
  /\ allowAboveRoot' = ~isAbsolute(input)
  /\ pcN' = "loop"
  /\ UNCHANGED <<caller, input, res, idx, output>>
  /\ UNCHANGED <<process, normVars, splitVars, resolveVars, relVars, joinVars>>

\* one iteration of `for (const p of parts)`
ArrayStep ==
  /\ pcN = "loop"
  /\ idx <= Len(parts)
  /\ res' = normalizeArrayStep(res, parts[idx], allowAboveRoot)
  /\ idx' = idx + 1
  /\ UNCHANGED <<caller, input, parts, allowAboveRoot, pcN, output>>
  /\ UNCHANGED <<process, normVars, splitVars, resolveVars, relVars, joinVars>>

\* `return res` to a direct caller
ArrayReturn ==
  /\ pcN = "loop"
  /\ idx > Len(parts)
  /\ caller = "direct"
  /\ pcN' = "done"
  /\ UNCHANGED <<caller, input, parts, allowAboveRoot, res, idx, output>>
  /\ UNCHANGED <<process, normVars, splitVars, resolveVars, relVars, joinVars>>

\* `return res` to normalize, which joins and returns
NormalizeReturn ==
  /\ pcN = "loop"
  /\ idx > Len(parts)
  /\ caller = "normalize"
  /\ output' = normalizeFinish(input, JoinSlash(res))
  /\ pcN' = "done"
  /\ UNCHANGED <<caller, input, parts, allowAboveRoot, res, idx>>
  /\ UNCHANGED <<process, normVars, splitVars, resolveVars, relVars, joinVars>>

NextArr == NormalizeEnter \/ ArrayStep \/ ArrayReturn \/ NormalizeReturn
SpecArr == InitArr /\ [][NextArr]_vars

\* ================================================== normalize, applied twice
InitNorm ==
  /\ process = ProcessUndefined
  /\ original \in Paths(MaxLen)
  /\ current = original
  /\ calls = 0
  /\ IdleArr /\ IdleSplit /\ IdleResolve /\ IdleRel /\ IdleJoin

NormalizeCall ==
  /\ calls < 2
  /\ current' = normalize(current)
  /\ calls' = calls + 1
  /\ UNCHANGED <<original, process, arrVars, splitVars, resolveVars, relVars,
                 joinVars>>

NextNorm == NormalizeCall
SpecNorm == InitNorm /\ [][NextNorm]_vars

\* ================================================= parse, format, extname
InitSplit ==
  /\ process = ProcessUndefined
  /\ filename \in Paths(MaxLen)
  /\ pcS = "start"
  /\ parsed = EmptyPath /\ formatted = <<>> /\ ext = <<>>
  /\ IdleArr /\ IdleNorm /\ IdleResolve /\ IdleRel /\ IdleJoin

ParseCall ==
  /\ pcS = "start"
  /\ parsed' = parse(filename)
  /\ pcS' = "parsed"
  /\ UNCHANGED <<filename, formatted, ext>>
  /\ UNCHANGED <<process, arrVars, normVars, resolveVars, relVars, joinVars>>

FormatCall ==
  /\ pcS = "parsed"
  /\ formatted' = format(parsed)
  /\ pcS' = "formatted"
  /\ UNCHANGED <<filename, parsed, ext>>
  /\ UNCHANGED <<process, arrVars, normVars, resolveVars, relVars, joinVars>>

ExtnameCall ==
  /\ pcS = "start"
  /\ ext' = extname(filename)
  /\ pcS' = "extname"
  /\ UNCHANGED <<filename, parsed, formatted>>
  /\ UNCHANGED <<process, arrVars, normVars, resolveVars, relVars, joinVars>>

NextSplit == ParseCall \/ FormatCall \/ ExtnameCall
SpecSplit == InitSplit /\ [][NextSplit]_vars
\* ==================================================== resolve, step by step
\* the values given to resolve as arguments
ArgValues ==
  {Str(<<>>), Str(<<"a">>), Str(<<".", ".">>), Str(<<"/">>), Str(<<"/", "a">>),
   NotAString}
ArgLists == UNION {[1..k -> ArgValues] : k \in 0..MaxArgs}

\* what process may be when resolve runs; cwd() is absolute on a sound host,
\* and empty where the lookup fails
ResolveProcesses ==
  {ProcessUndefined, ProcessWithCwd(<<"/">>), ProcessWithCwd(<<"/", "a">>),
   ProcessWithCwd(<<>>)}

InitResolve ==
  /\ process \in ResolveProcesses
  /\ args \in ArgLists
  /\ i = Len(args) - 1
  /\ resolvedPath = <<>>
  /\ resolvedAbsolute = FALSE
  /\ pcR = "loop"
  /\ cwdReads = 0
  /\ examined = <<>>
  /\ result = <<>>
  /\ IdleArr /\ IdleNorm /\ IdleSplit /\ IdleRel /\ IdleJoin

\* the bookkeeping of one loop iteration: which index was examined and
\* whether getCwd was called for it
ResolveExamine ==
  /\ pcR = "loop"
  /\ resolveContinues(i, resolvedAbsolute)
  /\ examined' = Append(examined, i)
  /\ cwdReads' = IF i >= 0 THEN cwdReads ELSE cwdReads + 1

\* `throw new TypeError(...)`
ResolveThrow ==
  /\ ResolveExamine
  /\ ~isString(resolveOperand(args, process, i))
  /\ pcR' = "threw"
  /\ UNCHANGED <<args, i, resolvedPath, resolvedAbsolute, result>>
  /\ UNCHANGED <<process, arrVars, normVars, splitVars, relVars, joinVars>>

\* `continue` on an empty string
ResolveSkip ==
  /\ ResolveExamine
  /\ isString(resolveOperand(args, process, i))
  /\ resolveOperand(args, process, i).str = <<>>
  /\ i' = i - 1
  /\ UNCHANGED <<args, resolvedPath, resolvedAbsolute, pcR, result>>
  /\ UNCHANGED <<process, arrVars, normVars, splitVars, relVars, joinVars>>

\* resolvedPath = path + '/' + resolvedPath
ResolvePrepend ==
  /\ ResolveExamine
  /\ isString(resolveOperand(args, process, i))
  /\ resolveOperand(args, process, i).str # <<>>
  /\ resolvedPath' = resolveOperand(args, process, i).str \o <<"/">>
                       \o resolvedPath
  /\ resolvedAbsolute' = isAbsolute(resolveOperand(args, process, i).str)
  /\ i' = i - 1
  /\ UNCHANGED <<args, pcR, result>>
  /\ UNCHANGED <<process, arrVars, normVars, splitVars, relVars, joinVars>>

\* the loop is left: normalize and return
ResolveReturn ==
  /\ pcR = "loop"
  /\ ~resolveContinues(i, resolvedAbsolute)
  /\ result' = resolveFinish(resolvedPath, resolvedAbsolute)
  /\ pcR' = "done"
  /\ UNCHANGED <<args, i, resolvedPath, resolvedAbsolute, cwdReads, examined>>
  /\ UNCHANGED <<process, arrVars, normVars, splitVars, relVars, joinVars>>

NextResolve == ResolveThrow \/ ResolveSkip \/ ResolvePrepend \/ ResolveReturn
SpecResolve == InitResolve /\ [][NextResolve]_vars

\* ================================================================ relative
\* a fixed absolute working directory
AbsoluteProcesses ==
  {ProcessUndefined, ProcessWithCwd(<<"/", "a", "/", "a", "a">>)}

InitRel ==
  /\ process \in AbsoluteProcesses
  /\ relFrom \in Paths(MaxPairLen)
  /\ relTo \in Paths(MaxPairLen)
  /\ rel = <<>> /\ joined = <<>> /\ landed = <<>>
  /\ pcRel = "start"
  /\ IdleArr /\ IdleNorm /\ IdleSplit /\ IdleResolve /\ IdleJoin

RelativeCall ==
  /\ pcRel = "start"
  /\ rel' = relative(relFrom, relTo, process)
  /\ pcRel' = "relative"
  /\ UNCHANGED <<relFrom, relTo, joined, landed>>
  /\ UNCHANGED <<process, arrVars, normVars, splitVars, resolveVars, joinVars>>

\* join(from, relative(from, to))
JoinBackCall ==
  /\ pcRel = "relative"
  /\ joined' = join(<<Str(relFrom), Str(rel)>>).value
  /\ pcRel' = "joined"
  /\ UNCHANGED <<relFrom, relTo, rel, landed>>
  /\ UNCHANGED <<process, arrVars, normVars, splitVars, resolveVars, joinVars>>

\* resolve(from, relative(from, to))
ResolveBackCall ==
  /\ pcRel = "relative"
  /\ landed' = resolve(<<Str(relFrom), Str(rel)>>, process).value
  /\ pcRel' = "resolved"
  /\ UNCHANGED <<relFrom, relTo, rel, joined>>
  /\ UNCHANGED <<process, arrVars, normVars, splitVars, resolveVars, joinVars>>

NextRel == RelativeCall \/ JoinBackCall \/ ResolveBackCall
SpecRel == InitRel /\ [][NextRel]_vars

\* ==================================================================== join
NonEmptyPaths(n) == Paths(n) \ {<<>>}

InitJoin ==
  /\ process = ProcessUndefined
  /\ segA \in NonEmptyPaths(MaxTripleLen)
  /\ segB \in NonEmptyPaths(MaxTripleLen)
  /\ segC \in NonEmptyPaths(MaxTripleLen)
  /\ pair = <<>> /\ nested = <<>> /\ flat = <<>> /\ concat = <<>>
  /\ pcJ = "start"
  /\ IdleArr /\ IdleNorm /\ IdleSplit /\ IdleResolve /\ IdleRel

\* join(a, b)
JoinPair ==
  /\ pcJ = "start"
  /\ pair' = join(<<Str(segA), Str(segB)>>).value
  /\ pcJ' = "pair"
  /\ UNCHANGED <<segA, segB, segC, nested, flat, concat>>
  /\ UNCHANGED <<process, arrVars, normVars, splitVars, resolveVars, relVars>>

\* join(join(a, b), c)
JoinNested ==
  /\ pcJ = "pair"
  /\ nested' = join(<<Str(pair), Str(segC)>>).value
  /\ pcJ' = "nested"
  /\ UNCHANGED <<segA, segB, segC, pair, flat, concat>>
  /\ UNCHANGED <<process, arrVars, normVars, splitVars, resolveVars, relVars>>

\* join(a, b, c)
JoinFlat ==
  /\ pcJ = "nested"
  /\ flat' = join(<<Str(segA), Str(segB), Str(segC)>>).value
  /\ pcJ' = "flat"
  /\ UNCHANGED <<segA, segB, segC, pair, nested, concat>>
  /\ UNCHANGED <<process, arrVars, normVars, splitVars, resolveVars, relVars>>

\* normalize(a + "/" + b + "/" + c)
NormalizeConcat ==
  /\ pcJ = "flat"
  /\ concat' = normalize(segA \o sep \o segB \o sep \o segC)
  /\ pcJ' = "all"
  /\ UNCHANGED <<segA, segB, segC, pair, nested, flat>>
  /\ UNCHANGED <<process, arrVars, normVars, splitVars, resolveVars, relVars>>

NextJoin == JoinPair \/ JoinNested \/ JoinFlat \/ NormalizeConcat
SpecJoin == InitJoin /\ [][NextJoin]_vars
\* ================================================================== claims
DotDot == <<".", ".">>
HasSegment(seq, seg) == \E k \in 1..Len(seq) : seq[k] = seg
\* every ".." of seq stands before every other segment
DotDotOnlyLeading(seq) ==
  \A j, k \in 1..Len(seq) : (j < k /\ seq[k] = DotDot) => seq[j] = DotDot

\* C4: normalize is idempotent: once normalize has been applied to a path
\* string, applying it again returns the same string.
C4_NormalizeIdempotent == calls >= 1 => normalize(current) = current

\* a path whose segments all cancel and that ends in a slash was normalized
\* to "./" and normalized once more
C4_Witness ==
  /\ calls = 2
  /\ original = <<"a", "/", ".", ".", "/">>
  /\ current = <<".", "/">>

\* C7: the accumulator of normalizeArray never holds an empty or "." segment,
\* holds no ".." when allowAboveRoot is false, and holds ".." only in front of
\* all other segments when it is true; so normalize of an absolute path has
\* no ".." segment and normalize of a relative path has ".." only as a
\* leading run.
C7_NormalizerOutput ==
  /\ ~HasSegment(res, <<>>)
  /\ ~HasSegment(res, <<".">>)
  /\ ~allowAboveRoot => ~HasSegment(res, DotDot)
  /\ allowAboveRoot => DotDotOnlyLeading(res)
  /\ (pcN = "done" /\ caller = "normalize") =>
       /\ isAbsolute(input) => ~HasSegment(Split(output), DotDot)
       /\ ~isAbsolute(input) => DotDotOnlyLeading(Split(output))

\* normalize of an absolute path dropped a ".." that would climb above the
\* root and kept the name after it
C7_Witness ==
  /\ pcN = "done"
  /\ caller = "normalize"
  /\ input = <<"/", ".", ".", "/", "a">>
  /\ res = << <<"a">> >>
  /\ output = <<"/", "a">>

\* the final component of a path string: what follows the last slash once the
\* trailing slashes are removed
FinalComponent(p) ==
  LET kept == {k \in 1..Len(p) : p[k] # "/"}
      end == IF kept = {} THEN 0
             ELSE CHOOSE k \in kept : \A j \in kept : j <= k
      slashes == {k \in 1..end : p[k] = "/"}
      start == IF slashes = {} THEN 1
               ELSE (CHOOSE k \in slashes : \A j \in slashes : j <= k) + 1
  IN SubSeq(p, start, end)

LastDot(base) ==
  CHOOSE k \in 1..Len(base) :
    base[k] = "." /\ \A j \in (k + 1)..Len(base) : base[j] # "."
HasDot(base) == \E k \in 1..Len(base) : base[k] = "."
OnlyDots(base) == \A k \in 1..Len(base) : base[k] = "."
LeadingDotOnly(base) ==
  Len(base) >= 1 /\ base[1] = "." /\ \A k \in 2..Len(base) : base[k] # "."
FromLastDot(base) == SubSeq(base, LastDot(base), Len(base))

\* the extension as the claim words it: none for a base of dots only
ExtAsClaimed(base) ==
  IF ~HasDot(base) \/ OnlyDots(base) \/ LeadingDotOnly(base) THEN <<>>
  ELSE FromLastDot(base)

\* the extension with only "." and ".." exempt among the bases of dots
ExtAmended(base) ==
  IF ~HasDot(base) \/ base = <<".">> \/ base = DotDot \/ LeadingDotOnly(base)
    THEN <<>>
  ELSE FromLastDot(base)

\* the extension and the base the calls made so far returned
ExtReturned == IF pcS = "extname" THEN ext ELSE parsed.ext
SplitReturned == pcS \in {"extname", "parsed", "formatted"}

\* C6 as stated: the extension is empty when base has no dot, consists only
\* of dots, or starts with its only dot; otherwise it is base from its last
\* dot on.
C6_ExtAsClaimed ==
  SplitReturned => ExtReturned = ExtAsClaimed(FinalComponent(filename))

\* C6 amended: the extension is empty when base has no dot, is "." or "..",
\* or starts with its only dot; otherwise (a base of three or more dots
\* included, whose extension is ".") it is base from its last dot on; and
\* the base parse returns is the final component.
C6_ExtAmended ==
  /\ SplitReturned => ExtReturned = ExtAmended(FinalComponent(filename))
  /\ pcS \in {"parsed", "formatted"} => parsed.base = FinalComponent(filename)

\* extname returned "." for a final component of three dots
C6_Witness ==
  /\ pcS = "extname"
  /\ FinalComponent(filename) = <<".", ".", ".">>
  /\ ext = <<".">>

\* C2: for a normalized path string without trailing slash, format(parse(p))
\* is normalize(p).
C2_ParseFormatRoundTrip ==
  (pcS = "formatted" /\ ~EndsWithSlash(filename)
     /\ normalize(filename) = filename)
    => formatted = normalize(filename)
\* a formatted single-component absolute path
C2_Reached ==
  pcS = "formatted" /\ filename = <<"/", "a">> /\ formatted = <<"/", "/", "a">>

\* positions (from 1) of the arguments that are non-empty absolute strings
AbsoluteArgs ==
  {k \in 1..Len(args) :
     args[k] # NotAString /\ args[k].str # <<>> /\ args[k].str[1] = "/"}
\* positions of the arguments that are not strings
NonStringArgs == {k \in 1..Len(args) : args[k] = NotAString}
Highest(set) == CHOOSE k \in set : \A j \in set : j <= k
\* a non-string argument with no non-empty absolute argument to its right
NonStringExamined ==
  \E k \in NonStringArgs : \A j \in AbsoluteArgs : j < k
ResolveEnded == pcR \in {"done", "threw"}

\* C3 as stated: resolve raises a type error whenever some argument is not a
\* string, wherever it stands.
C3_ThrowsOnAnyNonString == pcR = "done" => NonStringArgs = {}

\* C3 amended: resolve raises a type error exactly when some argument is not
\* a string and no argument to its right is a non-empty absolute path; a
\* non-string argument left of a non-empty absolute path is not examined and
\* the call returns.
C3_ThrowsOnExaminedNonString ==
  /\ pcR = "done" => ~NonStringExamined
  /\ pcR = "threw" => NonStringExamined

\* resolve returned although a non-string stands left of an absolute argument
C3_Witness ==
  /\ pcR = "done"
  /\ Len(args) = 2
  /\ args[1] = NotAString
  /\ args[2] = Str(<<"/", "a">>)
  /\ result = <<"/", "a">>

ResolveFinalString ==
  (IF resolvedAbsolute THEN <<"/">> ELSE <<>>)
    \o JoinSlash(normalizeArray(Split(resolvedPath), ~resolvedAbsolute))

\* C9: resolve returns "." when the final string is empty, and in no other
\* case.
C9_DotIffEmpty == pcR = "done" => (result = <<".">> <=> ResolveFinalString = <<>>)

\* resolve returned with an empty final string
C9_Reached == pcR = "done" /\ ResolveFinalString = <<>> /\ args # <<>>

\* the property the two relative claims share: the right side, resolve(to)
ResolvedTo == resolve(<<Str(relTo)>>, process).value
ResolvedFrom == resolve(<<Str(relFrom)>>, process).value
StartsWithUp(s) == Len(s) >= 3 /\ SubSeq(s, 1, 3) = <<".", ".", "/">>

\* C1 as stated: normalize(join(from, relative(from, to))) is
\* normalize(resolve(to)) for all from and to, relative ones included.
C1_RoundTripAnyFrom ==
  pcRel = "joined" => normalize(joined) = normalize(ResolvedTo)

\* C1 amended: normalize(join(from, relative(from, to))) is
\* normalize(resolve(to)) for every absolute from and every to, unless from
\* ends in a slash, does not normalize to "/" and names the place to
\* resolves to (relative is empty, and the left side keeps from's slash).
C1_RoundTripAbsoluteFrom ==
  (/\ pcRel = "joined"
   /\ isAbsolute(relFrom)
   /\ ~(EndsWithSlash(relFrom) /\ rel = <<>> /\ normalize(relFrom) # <<"/">>))
    => normalize(joined) = normalize(ResolvedTo)

\* join led from an absolute from up and down again to a relative to
C1_Witness ==
  /\ pcRel = "joined"
  /\ isAbsolute(relFrom)
  /\ ~isAbsolute(relTo)
  /\ StartsWithUp(rel)
  /\ process = ProcessWithCwd(<<"/", "a", "/", "a", "a">>)
  /\ joined = ResolvedTo

\* C10: resolve(from, relative(from, to)) is resolve(to), and relative(from,
\* to) is empty exactly when resolve(from) is resolve(to).
C10_RelativeLandsOnTo ==
  /\ pcRel = "resolved" => landed = ResolvedTo
  /\ pcRel # "start" => (rel = <<>> <=> ResolvedFrom = ResolvedTo)

\* resolve followed a relative path that climbs, from a relative from
C10_Witness ==
  /\ pcRel = "resolved"
  /\ relFrom # <<>>
  /\ ~isAbsolute(relFrom)
  /\ StartsWithUp(rel)
  /\ landed # ResolvedFrom

\* C5: for non-empty a, b, c, join(join(a, b), c), join(a, b, c) and
\* normalize(a + "/" + b + "/" + c) are equal.
C5_JoinAssociative == pcJ = "all" => (nested = flat /\ flat = concat)

\* the three were computed for a relative a, a b that cancels it and a c that
\* climbs further
C5_Witness ==
  /\ pcJ = "all"
  /\ segA = <<"a">>
  /\ segB = <<".", ".">>
  /\ segC = <<".", ".">>
  /\ pair = <<".">>
  /\ nested = <<".", ".">>

====
